---- MODULE Spec2Model ----
(***************************************************************************)
(* Model of the extractive summarizer of youtube_summary_mcp               *)
(* (summary_generator.py), of the preset table and the configuration       *)
(* singleton of config_manager.py, of TranscriptRetriever and its provider *)
(* (transcript_retriever.py) and of the tool handlers of the stdio and the *)
(* SSE server (server.py, server_sse.py).                                  *)
(*                                                                         *)
(* A text is a sequence of characters.  The alphabet is                    *)
(*   "x" "y"  lowercase letters,   "X"  the uppercase of "x",              *)
(*   "a"      a letter; the one-letter word "a" is an English stopword,    *)
(*   "1"      a digit,  "."  the sentence terminator,                      *)
(*   " " "\n" whitespace.                                                  *)
(* Floats are modelled exactly: a ratio is an integer number of percent,   *)
(* a weight or score is a fraction <<numerator, denominator>>.             *)
(***************************************************************************)
EXTENDS Integers, Sequences, FiniteSets, TLC

VARIABLES
    \* the call on the SummaryGenerator: its arguments, its outcome, its steps
    text, op, ratio, length, num_points, result, trace,
    \* self.stop_words of the generator's TFIDFSummarizer
    stop_words,
    \* the tokenizer that fails in this run, and the exception chain that
    \* left the call (outermost first, <<>> after a normal return)
    fault, raised,
    \* the calls completed so far on one generator
    log,
    \* the calls in progress on one shared generator, per caller
    calls,
    \* the module global _config, the instances constructed so far, and
    \* the get_config / set_config calls made
    _config, made, config_log,
    \* the arguments of a tool invocation and the tool's answer
    arguments, response,
    \* the argument and the outcome of extract_video_id
    video_url, video_id,
    \* the language asked for, what the YouTube API answers to the first and
    \* to the second fetch and whether the formatter works, the fetches
    \* made, and the outcome of get_transcript
    language, api, fetches, transcript,
    \* a tool invocation on a server, the components its handler called (in
    \* order), and what the server gave back
    request, invoked, reply

coreVars == <<text, op, ratio, length, num_points, result, trace>>

configVars == <<_config, made, config_log>>

toolVars == <<arguments, response>>

videoVars == <<video_url, video_id>>

providerVars == <<language, api, fetches, transcript>>

serverVars == <<request, invoked, reply>>

vars == <<text, op, ratio, length, num_points, result, trace, stop_words,
          fault, raised, log, calls, _config, made, config_log,
          arguments, response, video_url, video_id,
          language, api, fetches, transcript, request, invoked, reply>>

----------------------------------------------------------------------------
(* Bounds and input sets *)

MaxUnits == 3

\* A text is built from at most MaxUnits of these fragments.
Units ==
    { <<"x", ".", " ">>,
      <<"X", ".", " ">>,
      <<"y", " ", "y", ".", " ">>,
      <<"a", ".", " ">>,
      <<"1", ".", " ">>,
      <<"y", ".">>,
      <<"x">>,
      <<"\n">> }

RECURSIVE Concat(_)
Concat(us) == IF us = <<>> THEN <<>> ELSE Head(us) \o Concat(Tail(us))

Texts == { Concat(us) : us \in UNION { [1..k -> Units] : k \in 0..MaxUnits } }

\* Ratios in percent: below range, the two ends, inside, above range.
Ratios == { 0 - 10, 0, 50, 70, 100, 150 }

Lengths == { "short", "medium", "long", "invalid" }

NumPoints == { 0 - 1, 0, 1, 2, 5 }

----------------------------------------------------------------------------
(* Characters and Python string primitives *)

IsSpace(c) == c \in { " ", "\n" }

IsAlphaChar(c) == c \in { "x", "X", "y", "a" }

LowerChar(c) == IF c = "X" THEN "x" ELSE c

\* str.lower()
Lower(t) == [i \in 1..Len(t) |-> LowerChar(t[i])]

RECURSIVE LStrip(_)
LStrip(t) == IF t # <<>> /\ IsSpace(Head(t)) THEN LStrip(Tail(t)) ELSE t

RECURSIVE RStrip(_)
RStrip(t) ==
    IF t # <<>> /\ IsSpace(t[Len(t)]) THEN RStrip(SubSeq(t, 1, Len(t) - 1)) ELSE t

\* str.strip()
Strip(t) == RStrip(LStrip(t))

\* str.isalpha(): non-empty and every character a letter
IsAlpha(w) == w # <<>> /\ \A i \in 1..Len(w) : IsAlphaChar(w[i])

\* seq[:n] with Python's meaning of a negative n
PyPrefix(s, n) ==
    IF n >= 0
    THEN SubSeq(s, 1, IF n < Len(s) THEN n ELSE Len(s))
    ELSE SubSeq(s, 1, IF Len(s) + n > 0 THEN Len(s) + n ELSE 0)

\* list.index(v): position of the first occurrence (1-based here)
Index(s, v) == CHOOSE i \in 1..Len(s) : s[i] = v /\ \A j \in 1..(i - 1) : s[j] # v

\* Variant of JoinSpace: two separators between the parts.
RECURSIVE JoinTwoSpaces(_)
JoinTwoSpaces(parts) ==
    IF parts = <<>> THEN <<>>
    ELSE IF Len(parts) = 1 THEN parts[1]
    ELSE parts[1] \o <<" ", " ">> \o JoinTwoSpaces(Tail(parts))

\* " ".join(parts)
RECURSIVE JoinSpace(_)
JoinSpace(parts) ==
    IF parts = <<>> THEN <<>>
    ELSE IF Len(parts) = 1 THEN parts[1]
    ELSE parts[1] \o <<" ">> \o JoinSpace(Tail(parts))

----------------------------------------------------------------------------
(* Exact fractions standing for Python floats *)

RatZero == <<0, 1>>

RatAdd(p, q) == <<p[1] * q[2] + q[1] * p[2], p[2] * q[2]>>

RatLess(p, q) == p[1] * q[2] < q[1] * p[2]

----------------------------------------------------------------------------
(* NLTK tokenizers *)

\* First index >= j of a non-whitespace character (one exists when called).
RECURSIVE NextTok(_, _)
NextTok(t, j) == IF IsSpace(t[j]) THEN NextTok(t, j + 1) ELSE j

\* Sentences of t[s..e]: a sentence ends at a "." followed by whitespace and
\* the next one starts at the next token; the last ends at e.
RECURSIVE SentSlices(_, _, _, _)
SentSlices(t, s, i, e) ==
    IF s > e THEN <<>>
    ELSE IF i >= e THEN << SubSeq(t, s, e) >>
    ELSE IF t[i] = "." /\ IsSpace(t[i + 1])
         THEN << SubSeq(t, s, i) >>
              \o SentSlices(t, NextTok(t, i + 1), NextTok(t, i + 1), e)
         ELSE SentSlices(t, s, i + 1, e)

\* nltk.tokenize.sent_tokenize
sent_tokenize(t) == SentSlices(t, 1, 1, Len(RStrip(t)))

\* Length of the leading run of non-whitespace characters.
RECURSIVE RunLen(_)
RunLen(t) == IF t = <<>> \/ IsSpace(Head(t)) THEN 0 ELSE 1 + RunLen(Tail(t))

\* str.split(): the maximal non-whitespace runs
RECURSIVE SplitWhitespace(_)
SplitWhitespace(t) ==
    LET u == LStrip(t)
    IN IF u = <<>> THEN <<>>
       ELSE << SubSeq(u, 1, RunLen(u)) >>
            \o SplitWhitespace(SubSeq(u, RunLen(u) + 1, Len(u)))

\* Treebank tokens of one sentence: whitespace-separated runs, the final
\* period of the sentence split off as a token of its own.
SplitFinalPeriod(runs) ==
    LET n == Len(runs)
        last == runs[n]
        k == Len(last)
    IN IF n = 0 THEN <<>>
       ELSE IF k > 1 /\ last[k] = "." /\ last[k - 1] # "."
            THEN SubSeq(runs, 1, n - 1) \o << SubSeq(last, 1, k - 1), <<".">> >>
            ELSE runs

TreebankTokens(s) == SplitFinalPeriod(SplitWhitespace(s))

RECURSIVE TokensOf(_)
TokensOf(sents) ==
    IF sents = <<>> THEN <<>>
    ELSE TreebankTokens(Head(sents)) \o TokensOf(Tail(sents))

\* nltk.tokenize.word_tokenize
word_tokenize(t) == TokensOf(sent_tokenize(t))

----------------------------------------------------------------------------
(* TFIDFSummarizer *)

\* stopwords.words("english"), restricted to the words of this alphabet:
\* the value self.stop_words is given at construction.
EnglishStopWords == { <<"a">> }

\* re.sub(r"\s+", " ", text)
RECURSIVE CollapseWhitespace(_)
CollapseWhitespace(t) ==
    IF t = <<>> THEN <<>>
    ELSE IF IsSpace(Head(t)) THEN <<" ">> \o CollapseWhitespace(LStrip(t))
    ELSE << Head(t) >> \o CollapseWhitespace(Tail(t))

_preprocess_text(t) == Strip(CollapseWhitespace(t))

Count(ws, w) == Cardinality({ i \in 1..Len(ws) : ws[i] = w })

SetMax(S) == CHOOSE m \in S : \A k \in S : k <= m

\* Variant of NormalizedFrequencies: the count is divided by the number of
\* filtered words instead of the highest count.
NormalizedFrequenciesByTotal(filtered_words) ==
    LET keys == { filtered_words[i] : i \in 1..Len(filtered_words) }
    IN IF filtered_words = <<>> THEN << >>
       ELSE [w \in keys |-> << Count(filtered_words, w), Len(filtered_words) >>]

\* Lines 106-119: the table of the filtered words, a function from word to
\* count / max_freq; the empty function when nothing is left.
NormalizedFrequencies(filtered_words) ==
    LET keys == { filtered_words[i] : i \in 1..Len(filtered_words) }
        max_freq == SetMax({ Count(filtered_words, w) : w \in keys })
    IN IF filtered_words = <<>> THEN << >>
       ELSE [w \in keys |-> << Count(filtered_words, w), max_freq >>]

IsScoringWord(w) == IsAlpha(w) /\ w \notin stop_words

_calculate_word_frequencies(t) ==
    NormalizedFrequencies(SelectSeq(word_tokenize(Lower(t)), IsScoringWord))

\* Variant of SumWeights: a word repeated in the sentence counts once.
RECURSIVE SumWeightsOncePerWord(_, _)
SumWeightsOncePerWord(words, word_freq) ==
    IF words = <<>> THEN RatZero
    ELSE IF /\ words[Len(words)] \in DOMAIN word_freq
            /\ \A i \in 1..(Len(words) - 1) : words[i] # words[Len(words)]
         THEN RatAdd(SumWeightsOncePerWord(SubSeq(words, 1, Len(words) - 1), word_freq),
                     word_freq[words[Len(words)]])
         ELSE SumWeightsOncePerWord(SubSeq(words, 1, Len(words) - 1), word_freq)

\* sum of word_freq[word] over the words of the sentence found in word_freq
RECURSIVE SumWeights(_, _)
SumWeights(words, word_freq) ==
    IF words = <<>> THEN RatZero
    ELSE IF words[Len(words)] \in DOMAIN word_freq
         THEN RatAdd(SumWeights(SubSeq(words, 1, Len(words) - 1), word_freq),
                     word_freq[words[Len(words)]])
         ELSE SumWeights(SubSeq(words, 1, Len(words) - 1), word_freq)

\* A dict is a sequence of <<key, value>> in insertion order, keys distinct.
DictHas(d, k) == \E i \in 1..Len(d) : d[i][1] = k

\* Variant of DictSet: a list of pairs, a repeated key gets a second entry.
DictSetAppend(d, k, v) == Append(d, <<k, v>>)

DictSet(d, k, v) ==
    IF DictHas(d, k)
    THEN [i \in 1..Len(d) |-> IF d[i][1] = k THEN <<k, v>> ELSE d[i]]
    ELSE Append(d, <<k, v>>)

\* Lines 146-147: the sentence is entered only with a positive score.
ScoreOne(sent_scores, sentence, score) ==
    IF RatLess(RatZero, score) THEN DictSet(sent_scores, sentence, score)
    ELSE sent_scores

RECURSIVE ScoreInto(_, _, _)
ScoreInto(sent_scores, sentences, word_freq) ==
    IF sentences = <<>> THEN sent_scores
    ELSE ScoreInto(ScoreOne(sent_scores, Head(sentences),
                            SumWeights(word_tokenize(Lower(Head(sentences))), word_freq)),
                   Tail(sentences), word_freq)

_score_sentences(sentences, word_freq) == ScoreInto(<<>>, sentences, word_freq)

\* sorted(items, key=lambda x: x[1], reverse=True): stable, so items of equal
\* score keep their dict insertion order.
\* Variant of InsertByScore: an item goes before the items of equal score.
RECURSIVE InsertByScoreBeforeEquals(_, _)
InsertByScoreBeforeEquals(sorted, item) ==
    IF sorted = <<>> THEN << item >>
    ELSE IF ~RatLess(item[2], Head(sorted)[2]) THEN << item >> \o sorted
    ELSE << Head(sorted) >> \o InsertByScoreBeforeEquals(Tail(sorted), item)

RECURSIVE InsertByScore(_, _)
InsertByScore(sorted, item) ==
    IF sorted = <<>> THEN << item >>
    ELSE IF RatLess(Head(sorted)[2], item[2]) THEN << item >> \o sorted
    ELSE << Head(sorted) >> \o InsertByScore(Tail(sorted), item)

RECURSIVE SortedByScoreDesc(_)
SortedByScoreDesc(items) ==
    IF items = <<>> THEN <<>>
    ELSE InsertByScore(SortedByScoreDesc(SubSeq(items, 1, Len(items) - 1)),
                       items[Len(items)])

\* sorted(items, key=lambda x: sentences.index(x[0])): stable, ascending
RECURSIVE InsertByIndex(_, _, _)
InsertByIndex(sorted, item, sentences) ==
    IF sorted = <<>> THEN << item >>
    ELSE IF Index(sentences, item[1]) < Index(sentences, Head(sorted)[1])
         THEN << item >> \o sorted
    ELSE << Head(sorted) >> \o InsertByIndex(Tail(sorted), item, sentences)

\* Variant of SortedByOriginalOrder: the second sort left out.
LeftInRankOrder(items, sentences) == items

RECURSIVE SortedByOriginalOrder(_, _)
SortedByOriginalOrder(items, sentences) ==
    IF items = <<>> THEN <<>>
    ELSE InsertByIndex(SortedByOriginalOrder(SubSeq(items, 1, Len(items) - 1), sentences),
                       items[Len(items)], sentences)

Keys(items) == [i \in 1..Len(items) |-> items[i][1]]

\* Variant of NumSentences: the lower limit of 1 left out.
NumSentencesNoMinimum(n, r) == (n * r) \div 100

\* Variant of NumSentences: the product rounded up instead of down.
NumSentencesRoundedUp(n, r) ==
    IF (n * r + 99) \div 100 > 1 THEN (n * r + 99) \div 100 ELSE 1

\* max(1, int(len(sentences) * ratio)), the ratio in percent
NumSentences(n, r) == IF (n * r) \div 100 > 1 THEN (n * r) \div 100 ELSE 1

\* Lines 182-197 of summarize: the list summary_sentences (the first
\* sentence alone when nothing is scored).
SelectTopSentences(sentences, sent_scores, r) ==
    IF sent_scores = <<>> THEN << sentences[1] >>
    ELSE Keys(SortedByOriginalOrder(
                  PyPrefix(SortedByScoreDesc(sent_scores),
                           NumSentences(Len(sentences), r)),
                  sentences))

\* Variant of SummarizeSentences: without a frequency table every sentence
\* is returned.
SummarizeSentencesWholeDocument(sentences, word_freq, r) ==
    IF Len(sentences) = 0 THEN <<>>
    ELSE IF DOMAIN word_freq = {} THEN sentences
    ELSE SelectTopSentences(sentences, _score_sentences(sentences, word_freq), r)

\* Lines 169-180 of summarize
SummarizeSentences(sentences, word_freq, r) ==
    IF Len(sentences) = 0 THEN <<>>
    ELSE IF DOMAIN word_freq = {} THEN << sentences[1] >>
    ELSE SelectTopSentences(sentences, _score_sentences(sentences, word_freq), r)

\* Lines 167-173 of summarize, text already preprocessed
SummarizePreprocessed(pre, r) ==
    SummarizeSentences(sent_tokenize(pre), _calculate_word_frequencies(pre), r)

\* The list of sentences that summarize joins.
SummarySentences(t, r) == SummarizePreprocessed(_preprocess_text(t), r)

\* Line 199-200: the string returned, kept with the list it was joined from.
JoinSummary(summary_sentences) ==
    [summary |-> JoinSpace(summary_sentences), sentences |-> summary_sentences]

\* TFIDFSummarizer.summarize
summarize(t, r) == JoinSummary(SummarySentences(t, r))

----------------------------------------------------------------------------
(* SummaryGenerator *)

\* Default arguments of the public operations
DefaultRatio == 30

DefaultNumPoints == 5

EmptyInputError == "Input text cannot be empty"

InvalidRatioError == "Ratio must be between 0.0 and 1.0"

InvalidLengthError == "Invalid length"

NoResult == [kind |-> "none", error |-> "", value |-> <<>>, sentences |-> <<>>]

Raise(msg) == [kind |-> "error", error |-> msg, value |-> <<>>, sentences |-> <<>>]

\* A returned summary: the string, and the sentences it was joined from.
ReturnSummary(s) ==
    [kind |-> "ok", error |-> "", value |-> s.summary, sentences |-> s.sentences]

\* A returned list of key points.
ReturnPoints(points) ==
    [kind |-> "ok", error |-> "", value |-> <<>>, sentences |-> points]

\* Variant of generate_summary: the ratio is checked before the text.
generate_summary_ratio_first(t, r) ==
    IF ~(0 <= r /\ r <= 100)
    THEN [result |-> Raise(InvalidRatioError), trace |-> << "check_ratio" >>]
    ELSE IF t = <<>> \/ Strip(t) = <<>>
    THEN [result |-> Raise(EmptyInputError),
          trace |-> << "check_ratio", "check_text" >>]
    ELSE [result |-> ReturnSummary(summarize(t, r)),
          trace |-> << "check_ratio", "check_text", "summarize" >>]

\* Variant of generate_summary: the ends 0.0 and 1.0 are refused.
generate_summary_open_interval(t, r) ==
    IF t = <<>> \/ Strip(t) = <<>>
    THEN [result |-> Raise(EmptyInputError), trace |-> << "check_text" >>]
    ELSE IF ~(0 < r /\ r < 100)
    THEN [result |-> Raise(InvalidRatioError),
          trace |-> << "check_text", "check_ratio" >>]
    ELSE [result |-> ReturnSummary(summarize(t, r)),
          trace |-> << "check_text", "check_ratio", "summarize" >>]

\* Variant of generate_summary: the ratio is not checked.
generate_summary_unchecked_ratio(t, r) ==
    IF t = <<>> \/ Strip(t) = <<>>
    THEN [result |-> Raise(EmptyInputError), trace |-> << "check_text" >>]
    ELSE [result |-> ReturnSummary(summarize(t, r)),
          trace |-> << "check_text", "summarize" >>]

\* SummaryGenerator.generate_summary: the outcome and the steps taken.
generate_summary(t, r) ==
    IF t = <<>> \/ Strip(t) = <<>>
    THEN [result |-> Raise(EmptyInputError), trace |-> << "check_text" >>]
    ELSE IF ~(0 <= r /\ r <= 100)
    THEN [result |-> Raise(InvalidRatioError),
          trace |-> << "check_text", "check_ratio" >>]
    ELSE [result |-> ReturnSummary(summarize(t, r)),
          trace |-> << "check_text", "check_ratio", "summarize" >>]

\* length_ratios of generate_summary_with_length, in percent
length_ratios == [l \in { "short", "medium", "long" } |->
                    IF l = "short" THEN 15 ELSE IF l = "medium" THEN 30 ELSE 50]

AfterLengthCheck(out) ==
    [result |-> out.result, trace |-> << "check_length" >> \o out.trace]

\* Variant of generate_summary_with_length: the text is checked before the
\* length.
generate_summary_with_length_text_first(t, l) ==
    IF t = <<>> \/ Strip(t) = <<>>
    THEN [result |-> Raise(EmptyInputError), trace |-> << "check_text" >>]
    ELSE IF l \notin DOMAIN length_ratios
    THEN [result |-> Raise(InvalidLengthError),
          trace |-> << "check_text", "check_length" >>]
    ELSE AfterLengthCheck(generate_summary(t, length_ratios[l]))

\* SummaryGenerator.generate_summary_with_length
generate_summary_with_length(t, l) ==
    IF l \notin DOMAIN length_ratios
    THEN [result |-> Raise(InvalidLengthError), trace |-> << "check_length" >>]
    ELSE AfterLengthCheck(generate_summary(t, length_ratios[l]))

\* Variant of SelectKeyPoints: the points put back into document order.
SelectKeyPointsInDocumentOrder(sentences, sent_scores, n) ==
    IF sent_scores = <<>> THEN PyPrefix(sentences, n)
    ELSE Keys(SortedByOriginalOrder(PyPrefix(SortedByScoreDesc(sent_scores), n),
                                    sentences))

\* Variant of SelectKeyPoints: the scored sentences are not ranked.
SelectKeyPointsUnranked(sentences, sent_scores, n) ==
    IF sent_scores = <<>> THEN PyPrefix(sentences, n)
    ELSE Keys(PyPrefix(sent_scores, n))

\* SummaryGenerator.extract_key_points with the default TFIDFSummarizer
\* Lines 322-332 of extract_key_points
SelectKeyPoints(sentences, sent_scores, n) ==
    IF sent_scores = <<>> THEN PyPrefix(sentences, n)
    ELSE Keys(PyPrefix(SortedByScoreDesc(sent_scores), n))

\* Lines 314-320 of extract_key_points
KeyPointsOfSentences(sentences, word_freq, n) ==
    IF Len(sentences) = 0 THEN <<>>
    ELSE SelectKeyPoints(sentences, _score_sentences(sentences, word_freq), n)

extract_key_points(t, n) ==
    KeyPointsOfSentences(sent_tokenize(t), _calculate_word_frequencies(t), n)

----------------------------------------------------------------------------
(* A failing tokenizer *)

\* What nltk raises when a tokenizer cannot load its data.
TokenizerError == "LookupError"

SummarizationFailedError == "Summarization failed"

\* The entry of the trace that records the exception of a tokenizer.
FaultEvent == "tokenizer raised"

\* raise SummaryGeneratorError(...) from e: the new exception, then its cause
RaiseFrom(chain) == << "SummaryGeneratorError" >> \o chain

\* Lines 162-200 of summarize with tokenizer f failing: sent_tokenize is
\* called on every text, word_tokenize only when there is a sentence.
summarize_raises(t, f) ==
    \/ f = "sent_tokenize"
    \/ f = "word_tokenize" /\ Len(sent_tokenize(_preprocess_text(t))) # 0

\* Lines 202-204 of summarize: except Exception as e: raise ... from e
RaisedBySummarize(t, f) ==
    IF summarize_raises(t, f) THEN RaiseFrom(<< TokenizerError >>) ELSE <<>>

\* Variant of PassedOrWrapped: every exception is wrapped.
WrappedAlways(chain) == IF chain = <<>> THEN <<>> ELSE RaiseFrom(chain)

\* Lines 257-262 of generate_summary: a SummaryGeneratorError is re-raised
\* as it is, any other exception leaves as a SummaryGeneratorError from it.
PassedOrWrapped(chain) ==
    IF chain = <<>> THEN <<>>
    ELSE IF Head(chain) = "SummaryGeneratorError" THEN chain
    ELSE RaiseFrom(chain)

ReachedSummarize(out) == \E i \in 1..Len(out.trace) : out.trace[i] = "summarize"

\* generate_summary and generate_summary_with_length with tokenizer f
\* failing: out is the outcome with working tokenizers.  The validation
\* steps call no tokenizer; generate_summary_with_length has no handler of
\* its own.
UnderFault(out, t, f) ==
    IF ReachedSummarize(out) /\ summarize_raises(t, f)
    THEN [result |-> Raise(SummarizationFailedError),
          trace |-> out.trace \o << FaultEvent >>,
          raised |-> PassedOrWrapped(RaisedBySummarize(t, f))]
    ELSE [result |-> out.result,
          trace |-> out.trace,
          raised |-> IF out.result.kind = "error"
                     THEN << "SummaryGeneratorError" >> ELSE <<>>]

\* Lines 312-320 of extract_key_points with tokenizer f failing
extract_key_points_raises(t, f) ==
    \/ f = "sent_tokenize"
    \/ f = "word_tokenize" /\ Len(sent_tokenize(t)) # 0

\* Lines 337-339 of extract_key_points: except Exception: log it, return []
KeyPointsUnderFault(points, t, f) ==
    IF extract_key_points_raises(t, f)
    THEN [result |-> ReturnPoints(<<>>),
          trace |-> << "extract_key_points", FaultEvent >>,
          raised |-> <<>>]
    ELSE [result |-> ReturnPoints(points),
          trace |-> << "extract_key_points" >>,
          raised |-> <<>>]

\* Variant of StopWordsAfterCall: the words of the text are remembered.
StopWordsLearned(held, t) ==
    held \cup { w \in { word_tokenize(Lower(t))[i] :
                          i \in 1..Len(word_tokenize(Lower(t))) } : IsAlpha(w) }

\* Variant of StopWordsAfterCall: the set is emptied.
StopWordsCleared(held, t) == { }

\* self.stop_words after a call: lines 73-204 and 296-339 read the set
\* (line 104) and never assign it.
StopWordsAfterCall(held, t) == held

----------------------------------------------------------------------------
(* ConfigManager *)

\* length_ratios of ConfigManager.get_summary_length_ratio, in percent
config_length_ratios == [l \in { "short", "medium", "long" } |->
                           IF l = "short" THEN 20 ELSE IF l = "medium" THEN 35 ELSE 50]

\* Default of the field summary_ratio
ConfigSummaryRatio == 30

\* ConfigManager.get_summary_length_ratio
get_summary_length_ratio(summary_length, summary_ratio) ==
    IF summary_length \in DOMAIN config_length_ratios
    THEN config_length_ratios[summary_length]
    ELSE summary_ratio

\* The k-th ConfigManager constructed
Instance(k) == << k >>

\* Variant of get_config: a new instance on every call.
get_config_always_new(held, n) ==
    [held |-> Instance(n + 1), made |-> n + 1, ret |-> Instance(n + 1)]

\* get_config, with held the global _config and n the number of instances
\* constructed so far: the new global, the new count, the value returned.
get_config(held, n) ==
    IF held = << >>
    THEN [held |-> Instance(n + 1), made |-> n + 1, ret |-> Instance(n + 1)]
    ELSE [held |-> held, made |-> n, ret |-> held]

\* set_config: the new global
set_config(held, config) == config

----------------------------------------------------------------------------
(* TranscriptRetriever.extract_video_id

   A URL is a sequence of pieces: the delimiters "https:" "//" "/" "?" "="
   "&" "." "[" and words of letters and digits, each word standing for its
   characters.  *)

\* The 11-character video ID "dQw4w9WgXcQ"
AnId == "dQw4w9WgXcQ"

VideoIdLength == 11

UrlDelimiters == { "https:", "//", "/", "?", "=", "&", ".", "[" }

\* The number of characters of a word
WordLength(w) ==
    CASE w = AnId -> 11
      [] w = "invalid_video_id" -> 16
      [] w \in { "youtube", "example" } -> 7
      [] w \in { "watch", "embed", "youtu" } -> 5
      [] w \in { "www", "com", "not" } -> 3
      [] w = "be" -> 2
      [] OTHER -> 1

RECURSIVE CharCount(_)
CharCount(url) ==
    IF url = << >> THEN 0 ELSE WordLength(Head(url)) + CharCount(Tail(url))

\* re.match(r"^[a-zA-Z0-9_-]{11}$", video_url)
IsBareId(url) ==
    /\ \A i \in 1..Len(url) : url[i] \notin UrlDelimiters
    /\ CharCount(url) = VideoIdLength

\* The longest prefix of s without a piece of D, and what follows it.
RECURSIVE UpTo(_, _)
UpTo(s, D) ==
    IF s = << >> \/ Head(s) \in D THEN << >> ELSE << Head(s) >> \o UpTo(Tail(s), D)

From(s, D) == SubSeq(s, Len(UpTo(s, D)) + 1, Len(s))

\* urlparse: the URL without its scheme
AfterScheme(url) == IF url # << >> /\ Head(url) = "https:" THEN Tail(url) ELSE url

\* urlparse(...).netloc: what follows "//", up to the path or the query
Netloc(rest) ==
    IF rest # << >> /\ Head(rest) = "//" THEN UpTo(Tail(rest), { "/", "?" }) ELSE << >>

AfterNetloc(rest) ==
    IF rest # << >> /\ Head(rest) = "//" THEN From(Tail(rest), { "/", "?" }) ELSE rest

\* urlparse(...).path and .query
Path(rest) == UpTo(AfterNetloc(rest), { "?" })

Query(rest) ==
    IF From(AfterNetloc(rest), { "?" }) = << >> THEN << >>
    ELSE Tail(From(AfterNetloc(rest), { "?" }))

\* urlparse raises ValueError on a netloc with an unmatched bracket.
UrlparseRaises(rest) == \E i \in 1..Len(Netloc(rest)) : Netloc(rest)[i] = "["

\* needle in haystack, for strings
Contains(haystack, needle) ==
    \E i \in 0..(Len(haystack) - Len(needle)) :
        SubSeq(haystack, i + 1, i + Len(needle)) = needle

\* str.lstrip("/")
RECURSIVE LStripSlash(_)
LStripSlash(path) ==
    IF path # << >> /\ Head(path) = "/" THEN LStripSlash(Tail(path)) ELSE path

\* The value of one field of the query if it is v=value with a value,
\* otherwise nothing (parse_qs drops blank values).
FieldV(field) ==
    IF UpTo(field, { "=" }) = << "v" >> /\ From(field, { "=" }) # << >>
    THEN Tail(From(field, { "=" }))
    ELSE << >>

\* parse_qs(query).get("v", [None])[0]: the first value of v, << >> for None
RECURSIVE QueryV(_)
QueryV(query) ==
    IF query = << >> THEN << >>
    ELSE IF FieldV(UpTo(query, { "&" })) # << >> THEN FieldV(UpTo(query, { "&" }))
    ELSE IF From(query, { "&" }) = << >> THEN << >>
    ELSE QueryV(Tail(From(query, { "&" })))

Found(id) == [kind |-> "ok", value |-> id, raised |-> << >>]

CouldNotExtract ==
    [kind |-> "error", value |-> << >>, raised |-> << "TranscriptFetcherError" >>]

InvalidUrl ==
    [kind |-> "error", value |-> << >>,
     raised |-> << "TranscriptFetcherError", "ValueError" >>]

\* Lines 156-171: the branches on the parsed URL
FromParsed(netloc, path, query) ==
    IF Contains(netloc, << "youtu", ".", "be" >>) /\ LStripSlash(path) # << >>
    THEN Found(LStripSlash(path))
    ELSE IF Contains(netloc, << "youtube", ".", "com" >>) /\ QueryV(query) # << >>
    THEN Found(QueryV(query))
    ELSE CouldNotExtract

ParsedAndMatched(rest) ==
    IF UrlparseRaises(rest) THEN InvalidUrl
    ELSE FromParsed(Netloc(rest), Path(rest), Query(rest))

extract_video_id(url) ==
    IF IsBareId(url) THEN Found(url) ELSE ParsedAndMatched(AfterScheme(url))

----------------------------------------------------------------------------
(* The parts of the state a specification does not use *)

\* None, as the empty sequence: an instance is the one-element sequence of
\* its number, so that the two can be compared.
None == << >>

CoreIdle ==
    /\ text = <<>>
    /\ op = "none"
    /\ ratio = DefaultRatio
    /\ length = "medium"
    /\ num_points = DefaultNumPoints
    /\ result = NoResult
    /\ trace = <<>>
    /\ fault = "none"
    /\ raised = <<>>

SessionIdle == log = <<>> /\ calls = <<>>

ConfigIdle == _config = None /\ made = 0 /\ config_log = <<>>

NoArguments == [tool |-> "none", video_url |-> FALSE, num_points |-> <<>>]

NoAnswer == [text |-> "", points |-> <<>>]

ToolIdle == arguments = NoArguments /\ response = NoAnswer

NoVideoId == [kind |-> "none", value |-> <<>>, raised |-> <<>>]

VideoIdle == video_url = <<>> /\ video_id = NoVideoId

NoFetch == [kind |-> "error", data |-> << >>]

NoApi == [first |-> NoFetch, second |-> NoFetch, formats |-> TRUE]

NoTranscript == [kind |-> "none", value |-> << >>, raised |-> << >>]

ProviderIdle ==
    language = "en" /\ api = NoApi /\ fetches = << >> /\ transcript = NoTranscript

NoRequest ==
    [server |-> "none", name |-> "none", has_url |-> FALSE, video_url |-> << >>,
     summary_length |-> "medium", num_points |-> << >>]

NoReply ==
    [kind |-> "none", message |-> "", detail |-> "", text |-> << >>, points |-> << >>]

ServerIdle == request = NoRequest /\ invoked = << >> /\ reply = NoReply

----------------------------------------------------------------------------
(* One call on a freshly constructed SummaryGenerator *)

TokenizerFaults == { "sent_tokenize", "word_tokenize" }

Fresh ==
    /\ text \in Texts
    /\ op = "none"
    /\ ratio = DefaultRatio
    /\ length = "medium"
    /\ num_points = DefaultNumPoints
    /\ result = NoResult
    /\ trace = <<>>
    /\ raised = <<>>
    /\ stop_words = EnglishStopWords
    /\ SessionIdle /\ ConfigIdle /\ ToolIdle /\ VideoIdle
    /\ ProviderIdle /\ ServerIdle

\* The tokenizers work.
Init == Fresh /\ fault = "none"

\* The call ends: its outcome and the steps it took become visible.
Return(out) == result' = out.result /\ trace' = out.trace /\ raised' = out.raised

GenerateSummary ==
    /\ op = "none"
    /\ \E r \in Ratios :
         /\ ratio' = r
         /\ Return(UnderFault(generate_summary(text, r), text, fault))
    /\ op' = "generate_summary"
    /\ stop_words' = StopWordsAfterCall(stop_words, text)
    /\ UNCHANGED <<text, length, num_points, fault, log, calls>>
    /\ UNCHANGED <<configVars, toolVars, videoVars, providerVars, serverVars>>

GenerateSummaryWithLength ==
    /\ op = "none"
    /\ \E l \in Lengths :
         /\ length' = l
         /\ ratio' = IF l \in DOMAIN length_ratios THEN length_ratios[l] ELSE ratio
         /\ Return(UnderFault(generate_summary_with_length(text, l), text, fault))
    /\ op' = "generate_summary_with_length"
    /\ stop_words' = StopWordsAfterCall(stop_words, text)
    /\ UNCHANGED <<text, num_points, fault, log, calls>>
    /\ UNCHANGED <<configVars, toolVars, videoVars, providerVars, serverVars>>

ExtractKeyPoints ==
    /\ op = "none"
    /\ \E n \in NumPoints :
         /\ num_points' = n
         /\ Return(KeyPointsUnderFault(extract_key_points(text, n), text, fault))
    /\ op' = "extract_key_points"
    /\ stop_words' = StopWordsAfterCall(stop_words, text)
    /\ UNCHANGED <<text, ratio, length, fault, log, calls>>
    /\ UNCHANGED <<configVars, toolVars, videoVars, providerVars, serverVars>>

Next == GenerateSummary \/ GenerateSummaryWithLength \/ ExtractKeyPoints

Spec == Init /\ [][Next]_vars

\* One call while a tokenizer fails.
FaultInit == Fresh /\ fault \in TokenizerFaults

FaultSpec == FaultInit /\ [][Next]_vars

----------------------------------------------------------------------------
(* Several calls, one after the other, on one SummaryGenerator *)

MaxCalls == 3

\* "x. y y. " (two scored sentences), "a. 1. " (nothing scored), "\n"
SessionTexts ==
    { <<"x", ".", " ", "y", " ", "y", ".", " ">>,
      <<"a", ".", " ", "1", ".", " ">>,
      <<"\n">> }

SessionRatios == { 50, 150 }

SessionLengths == { "short" }

SessionNumPoints == { 1, 2 }

SessionInit ==
    /\ CoreIdle
    /\ stop_words = EnglishStopWords
    /\ SessionIdle /\ ConfigIdle /\ ToolIdle /\ VideoIdle
    /\ ProviderIdle /\ ServerIdle

\* The call ends and is entered in the log.
Finish(name, t, arg, out) ==
    /\ Return(out)
    /\ log' = Append(log, [op |-> name, text |-> t, arg |-> arg,
                           result |-> out.result, raised |-> out.raised])
    /\ text' = t
    /\ op' = name
    /\ stop_words' = StopWordsAfterCall(stop_words, t)

SessionGenerateSummary ==
    /\ Len(log) < MaxCalls
    /\ \E t \in SessionTexts, r \in SessionRatios :
         /\ ratio' = r
         /\ Finish("generate_summary", t, r,
                   UnderFault(generate_summary(t, r), t, fault))
    /\ UNCHANGED <<length, num_points, fault, calls>>
    /\ UNCHANGED <<configVars, toolVars, videoVars, providerVars, serverVars>>

SessionGenerateSummaryWithLength ==
    /\ Len(log) < MaxCalls
    /\ \E t \in SessionTexts, l \in SessionLengths :
         /\ length' = l
         /\ ratio' = IF l \in DOMAIN length_ratios THEN length_ratios[l] ELSE ratio
         /\ Finish("generate_summary_with_length", t, l,
                   UnderFault(generate_summary_with_length(t, l), t, fault))
    /\ UNCHANGED <<num_points, fault, calls>>
    /\ UNCHANGED <<configVars, toolVars, videoVars, providerVars, serverVars>>

SessionExtractKeyPoints ==
    /\ Len(log) < MaxCalls
    /\ \E t \in SessionTexts, n \in SessionNumPoints :
         /\ num_points' = n
         /\ Finish("extract_key_points", t, n,
                   KeyPointsUnderFault(extract_key_points(t, n), t, fault))
    /\ UNCHANGED <<ratio, length, fault, calls>>
    /\ UNCHANGED <<configVars, toolVars, videoVars, providerVars, serverVars>>

SessionNext ==
    \/ SessionGenerateSummary
    \/ SessionGenerateSummaryWithLength
    \/ SessionExtractKeyPoints

SessionSpec == SessionInit /\ [][SessionNext]_vars

----------------------------------------------------------------------------
(* Calls of generate_summary in progress at the same time on one shared
   SummaryGenerator: each caller has its own frame (arguments and local
   variables) and takes the statements of the call one group at a time. *)

Callers == { "c1", "c2" }

IdleCall ==
    [pc |-> "idle", text |-> <<>>, ratio |-> DefaultRatio, sentences |-> <<>>,
     word_freq |-> <<>>, result |-> NoResult, overlapped |-> FALSE]

ConcurrentInit ==
    /\ CoreIdle
    /\ stop_words = EnglishStopWords
    /\ log = <<>>
    /\ calls = [c \in Callers |-> IdleCall]
    /\ ConfigIdle /\ ToolIdle /\ VideoIdle
    /\ ProviderIdle /\ ServerIdle

\* Lines 245-249 of generate_summary: the error raised, NoResult when the
\* arguments pass.
Validation(t, r) ==
    IF t = <<>> \/ Strip(t) = <<>> THEN Raise(EmptyInputError)
    ELSE IF ~(0 <= r /\ r <= 100) THEN Raise(InvalidRatioError)
    ELSE NoResult

\* Another caller is between its first and its last statement.
OtherInProgress(c) ==
    \E d \in Callers \ { c } : calls[d].pc \in { "tokenized", "counted" }

\* Lines 245-169: validation, preprocessing, sent_tokenize
Started(c, t, r, refused) ==
    [pc |-> IF refused.kind = "error" THEN "done" ELSE "tokenized",
     text |-> t,
     ratio |-> r,
     sentences |-> IF refused.kind = "error" THEN <<>>
                   ELSE sent_tokenize(_preprocess_text(t)),
     word_freq |-> <<>>,
     result |-> refused,
     overlapped |-> OtherInProgress(c)]

StartSummary(c) ==
    /\ calls[c].pc = "idle"
    /\ \E t \in SessionTexts, r \in SessionRatios :
         calls' = [calls EXCEPT ![c] = Started(c, t, r, Validation(t, r))]
    /\ UNCHANGED <<coreVars, stop_words, fault, raised, log>>
    /\ UNCHANGED <<configVars, toolVars, videoVars, providerVars, serverVars>>

\* Line 172: the frequency table, which reads self.stop_words
CountWords(c) ==
    /\ calls[c].pc = "tokenized"
    /\ calls' = [calls EXCEPT
                   ![c].pc = "counted",
                   ![c].word_freq =
                       _calculate_word_frequencies(_preprocess_text(calls[c].text)),
                   ![c].overlapped = calls[c].overlapped \/ OtherInProgress(c)]
    /\ stop_words' = StopWordsAfterCall(stop_words, calls[c].text)
    /\ UNCHANGED <<coreVars, fault, raised, log>>
    /\ UNCHANGED <<configVars, toolVars, videoVars, providerVars, serverVars>>

\* Lines 174-200 and 253-255: scoring, selection, the summary returned
SelectSentences(c) ==
    /\ calls[c].pc = "counted"
    /\ calls' = [calls EXCEPT
                   ![c].pc = "done",
                   ![c].result =
                       ReturnSummary(JoinSummary(
                           SummarizeSentences(calls[c].sentences, calls[c].word_freq,
                                              calls[c].ratio))),
                   ![c].overlapped = calls[c].overlapped \/ OtherInProgress(c)]
    /\ UNCHANGED <<coreVars, stop_words, fault, raised, log>>
    /\ UNCHANGED <<configVars, toolVars, videoVars, providerVars, serverVars>>

ConcurrentNext ==
    \E c \in Callers : StartSummary(c) \/ CountWords(c) \/ SelectSentences(c)

ConcurrentSpec == ConcurrentInit /\ [][ConcurrentNext]_vars

----------------------------------------------------------------------------
(* Calls of get_config and set_config, one after the other *)

MaxConfigCalls == 5

ConfigInit ==
    /\ CoreIdle
    /\ stop_words = EnglishStopWords
    /\ SessionIdle /\ ConfigIdle /\ ToolIdle /\ VideoIdle
    /\ ProviderIdle /\ ServerIdle

\* get_config returns: the globals change and the call is entered in the
\* log with the value returned, the global it found and the number of
\* instances it constructed.
GotConfig(out) ==
    /\ _config' = out.held
    /\ made' = out.made
    /\ config_log' = Append(config_log,
                            [call |-> "get_config", value |-> out.ret,
                             held |-> _config, constructed |-> out.made - made])

GetConfig ==
    /\ Len(config_log) < MaxConfigCalls
    /\ GotConfig(get_config(_config, made))
    /\ UNCHANGED <<coreVars, stop_words, fault, raised, log, calls>>
    /\ UNCHANGED <<toolVars, videoVars, providerVars, serverVars>>

\* set_config(config) with an instance made earlier (k <= made) or one the
\* caller constructs for the call (k = made + 1).
SetConfig ==
    /\ Len(config_log) < MaxConfigCalls
    /\ \E k \in 1..(made + 1) :
         /\ _config' = set_config(_config, Instance(k))
         /\ made' = IF k > made THEN k ELSE made
         /\ config_log' = Append(config_log,
                                 [call |-> "set_config", value |-> Instance(k),
                                  held |-> _config, constructed |-> 0])
    /\ UNCHANGED <<coreVars, stop_words, fault, raised, log, calls>>
    /\ UNCHANGED <<toolVars, videoVars, providerVars, serverVars>>

ConfigNext == GetConfig \/ SetConfig

ConfigSpec == ConfigInit /\ [][ConfigNext]_vars

----------------------------------------------------------------------------
(* One invocation of the extract_key_points tool: text is the transcript
   the provider holds for the video. *)

\* The argument num_points of the invocation: absent, or one integer.
ToolNumPoints == { << >> } \cup { << n >> : n \in NumPoints }

\* The default of the tool argument num_points
DefaultToolNumPoints == 5

UrlRequiredAnswer == "Error: video_url is required"

FetchFailedAnswer == "Error: Failed to extract key points"

NoTranscriptAnswer == "No transcript available for this video"

NoKeyPointsAnswer == "Could not extract key points from transcript"

\* arguments.get("num_points", 5), and the parameter num_points: int = 5
ArgumentOrDefault(given) == IF given = << >> THEN DefaultToolNumPoints ELSE given[1]

Answer(msg) == [text |-> msg, points |-> << >>]

\* The key points numbered from 1, or the answer that there are none.
AnswerOf(points) ==
    IF points = << >> THEN Answer(NoKeyPointsAnswer)
    ELSE [text |-> "", points |-> [i \in 1..Len(points) |-> << i, points[i] >>]]

\* The handler returns before it calls the SummaryGenerator.
NotCalled(msg) ==
    /\ response' = Answer(msg)
    /\ UNCHANGED <<op, num_points, result, trace, raised>>

\* The handler calls extract_key_points(transcript, n) and answers.
CoreCalled(n, out) ==
    /\ op' = "extract_key_points"
    /\ num_points' = n
    /\ Return(out)
    /\ response' = AnswerOf(out.result.sentences)

CallCore(n) ==
    CoreCalled(n, KeyPointsUnderFault(extract_key_points(text, n), text, fault))

ToolInit ==
    /\ Fresh
    /\ fault = "none"

\* YouTubeSummaryServer._handle_extract_key_points
HandleExtractKeyPoints ==
    /\ arguments.tool = "none"
    /\ \E url \in BOOLEAN, given \in ToolNumPoints, fetched \in BOOLEAN :
         /\ arguments' = [tool |-> "server", video_url |-> url, num_points |-> given]
         /\ IF ~url THEN NotCalled(UrlRequiredAnswer)
            ELSE IF ~fetched THEN NotCalled(FetchFailedAnswer)
            ELSE IF text = << >> THEN NotCalled(NoTranscriptAnswer)
            ELSE CallCore(ArgumentOrDefault(given))
    /\ stop_words' = StopWordsAfterCall(stop_words, text)
    /\ UNCHANGED <<text, ratio, length, fault, log, calls>>
    /\ UNCHANGED <<configVars, videoVars, providerVars, serverVars>>

\* The tool extract_key_points of server_sse.py; video_url is a required
\* parameter, and an empty one makes get_transcript fail.
SseExtractKeyPoints ==
    /\ arguments.tool = "none"
    /\ \E url \in BOOLEAN, given \in ToolNumPoints, fetched \in BOOLEAN :
         /\ arguments' = [tool |-> "sse", video_url |-> url, num_points |-> given]
         /\ IF ~url \/ ~fetched THEN NotCalled(FetchFailedAnswer)
            ELSE IF text = << >> THEN NotCalled(NoTranscriptAnswer)
            ELSE CallCore(ArgumentOrDefault(given))
    /\ stop_words' = StopWordsAfterCall(stop_words, text)
    /\ UNCHANGED <<text, ratio, length, fault, log, calls>>
    /\ UNCHANGED <<configVars, videoVars, providerVars, serverVars>>

ToolNext == HandleExtractKeyPoints \/ SseExtractKeyPoints

ToolSpec == ToolInit /\ [][ToolNext]_vars

----------------------------------------------------------------------------
(* One call of extract_video_id *)

UrlSchemes == { << >>, << "https:", "//" >> }

UrlHosts ==
    { << >>,
      << "www", ".", "youtube", ".", "com" >>,
      << "youtu", ".", "be" >>,
      << "example", ".", "com" >>,
      << "not", "youtube", ".", "com" >>,
      << "[" >> }

UrlPaths ==
    { << >>,
      << "/" >>,
      << "/", "watch" >>,
      << "/", "embed", "/", AnId >>,
      << "/", AnId >>,
      << AnId >>,
      << "invalid_video_id" >> }

UrlQueries ==
    { << >>,
      << "?", "v", "=", AnId >>,
      << "?", "v", "=" >>,
      << "?", "t", "=", "x", "&", "v", "=", AnId >>,
      << "?", "t", "=", "x" >> }

VideoUrls ==
    { s \o h \o p \o q :
        s \in UrlSchemes, h \in UrlHosts, p \in UrlPaths, q \in UrlQueries }

VideoInit ==
    /\ CoreIdle
    /\ stop_words = EnglishStopWords
    /\ SessionIdle /\ ConfigIdle /\ ToolIdle
    /\ ProviderIdle /\ ServerIdle
    /\ video_url \in VideoUrls
    /\ video_id = NoVideoId

ExtractVideoId ==
    /\ video_id.kind = "none"
    /\ video_id' = extract_video_id(video_url)
    /\ UNCHANGED <<coreVars, stop_words, fault, raised, log, calls, video_url>>
    /\ UNCHANGED <<configVars, toolVars, providerVars, serverVars>>

VideoNext == ExtractVideoId

VideoSpec == VideoInit /\ [][VideoNext]_vars

----------------------------------------------------------------------------
(* TranscriptRetriever.get_transcript and its YouTubeTranscriptProvider *)

\* What the API raises when it cannot deliver a transcript, and what the
\* formatter raises on data it cannot format.
ApiError == "CouldNotRetrieveTranscript"

FormatterError == "AttributeError"

\* One call of self.api.fetch: languages is << l >> for languages=[l] and
\* << >> when the argument is not given.
FetchCall(id, languages) == [video_id |-> id, languages |-> languages]

\* "\n".join(...) over the snippets of the fetched transcript
RECURSIVE format_transcript(_)
format_transcript(data) ==
    IF data = << >> THEN << >>
    ELSE IF Len(data) = 1 THEN data[1]
    ELSE data[1] \o << "\n" >> \o format_transcript(Tail(data))

Transcribed(t) == [kind |-> "ok", value |-> t, raised |-> << >>]

\* raise TranscriptFetcherError(error_msg) from e
FetcherErrorFrom(chain) ==
    [kind |-> "error", value |-> << >>,
     raised |-> << "TranscriptFetcherError" >> \o chain]

\* Lines 100-108: the fetched data is formatted; an exception of the
\* formatter leaves as a TranscriptFetcherError.
Formatted(made_fetches, data, world) ==
    [fetches |-> made_fetches,
     result |-> IF world.formats THEN Transcribed(format_transcript(data))
                ELSE FetcherErrorFrom(<< FormatterError >>)]

\* Variant of provider_get_transcript: the second fetch is made whether or
\* not the first one succeeded, and its data is preferred.
provider_get_transcript_always_fallback(id, lang, world) ==
    IF world.second.kind = "ok"
    THEN Formatted(<< FetchCall(id, << lang >>), FetchCall(id, << >>) >>,
                   world.second.data, world)
    ELSE IF world.first.kind = "ok"
    THEN Formatted(<< FetchCall(id, << lang >>), FetchCall(id, << >>) >>,
                   world.first.data, world)
    ELSE [fetches |-> << FetchCall(id, << lang >>), FetchCall(id, << >>) >>,
          result |-> FetcherErrorFrom(<< ApiError >>)]

\* YouTubeTranscriptProvider.get_transcript: the fetches made and the
\* outcome, world telling what the API and the formatter do.
provider_get_transcript(id, lang, world) ==
    IF world.first.kind = "ok"
    THEN Formatted(<< FetchCall(id, << lang >>) >>, world.first.data, world)
    ELSE IF world.second.kind = "ok"
    THEN Formatted(<< FetchCall(id, << lang >>), FetchCall(id, << >>) >>,
                   world.second.data, world)
    ELSE [fetches |-> << FetchCall(id, << lang >>), FetchCall(id, << >>) >>,
          result |-> FetcherErrorFrom(<< ApiError >>)]

\* Lines 199-206 of TranscriptRetriever.get_transcript: the error of
\* extract_video_id is re-raised, otherwise the provider is asked.
RetrievedFor(id, lang, world) ==
    IF id.kind = "error" THEN [fetches |-> << >>, result |-> id]
    ELSE provider_get_transcript(id.value, lang, world)

\* TranscriptRetriever.get_transcript
get_transcript(url, lang, world) == RetrievedFor(extract_video_id(url), lang, world)

\* The transcripts a fetch can deliver, as lists of snippets: none, two
\* sentences in two snippets, one snippet of whitespace.
TranscriptData ==
    { << >>,
      << << "x", "." >>, << "y", " ", "y", "." >> >>,
      << << " " >> >> }

FetchOutcomes == { NoFetch } \cup { [kind |-> "ok", data |-> d] : d \in TranscriptData }

Worlds == [first : FetchOutcomes, second : FetchOutcomes, formats : BOOLEAN]

Languages == { "en", "ko" }

ProviderInit ==
    /\ CoreIdle
    /\ stop_words = EnglishStopWords
    /\ SessionIdle /\ ConfigIdle /\ ToolIdle /\ ServerIdle
    /\ video_url \in VideoUrls
    /\ video_id = NoVideoId
    /\ language \in Languages
    /\ api \in Worlds
    /\ fetches = << >>
    /\ transcript = NoTranscript

\* One call of TranscriptRetriever.get_transcript(video_url, language)
GetTranscript ==
    /\ transcript.kind = "none"
    /\ video_id' = extract_video_id(video_url)
    /\ fetches' = get_transcript(video_url, language, api).fetches
    /\ transcript' = get_transcript(video_url, language, api).result
    /\ UNCHANGED <<coreVars, stop_words, fault, raised, log, calls>>
    /\ UNCHANGED <<video_url, language, api>>
    /\ UNCHANGED <<configVars, toolVars, serverVars>>

ProviderNext == GetTranscript

ProviderSpec == ProviderInit /\ [][ProviderNext]_vars

----------------------------------------------------------------------------
(* The tool handlers of the stdio server (server.py) and the tool
   summarize_video of the SSE server (server_sse.py) *)

\* The tools call_tool knows
ToolNames ==
    { "get_transcript", "summarize_video", "extract_key_points", "get_video_metadata" }

TranscriptFailedAnswer == "Error: Failed to fetch transcript"

SummarizeFailedAnswer == "Error: Failed to summarize video"

NoSummaryAnswer == "Could not generate summary from transcript"

MetadataFailedAnswer == "Error: Failed to get metadata"

UnknownToolAnswer == "Unknown tool"

\* The answer of call_tool to an exception no handler caught
ToolErrorAnswer == "Error"

SseSummarizeFailedAnswer == "Failed to summarize video"

SseUnexpectedAnswer == "Unexpected error"

\* What get_basic_metadata and format_metadata give for a video
MetadataText == << "x" >>

\* A component raises an exception of type x.
Raises(x) == [kind |-> "error", value |-> << >>, raised |-> << x >>]

\* No component is made to raise.
NoInjection == [component |-> "none", exception |-> ""]

\* self.transcript_retriever.get_transcript(video_url, language), unless
\* the component is made to raise
CallTranscript(url, lang, world, inj) ==
    IF inj.component = "transcript"
    THEN [fetches |-> << >>, result |-> Raises(inj.exception)]
    ELSE get_transcript(url, lang, world)

SummaryOutcome(out) ==
    [kind |-> IF out.raised = << >> THEN "ok" ELSE "error",
     value |-> out.result.value,
     raised |-> out.raised]

\* self.summary_generator.generate_summary_with_length(transcript, length)
CallSummary(t, l, f, inj) ==
    IF inj.component = "summary" THEN Raises(inj.exception)
    ELSE SummaryOutcome(UnderFault(generate_summary_with_length(t, l), t, f))

\* self.summary_generator.extract_key_points(transcript, num_points)
CallKeyPoints(t, n, f, inj) ==
    IF inj.component = "summary" THEN Raises(inj.exception)
    ELSE [kind |-> "ok",
          value |-> KeyPointsUnderFault(extract_key_points(t, n), t, f).result.sentences,
          raised |-> << >>]

\* The three calls on self.metadata_extractor
CallMetadata(available, inj) ==
    IF inj.component = "metadata" THEN Raises(inj.exception)
    ELSE IF available THEN [kind |-> "ok", value |-> MetadataText, raised |-> << >>]
    ELSE Raises("MetadataExtractorError")

\* What a handler gives back: a fixed text, an error text naming the
\* exception, a text of the video, numbered key points; or an exception
\* that leaves the handler.
Says(msg) ==
    [kind |-> "returned", message |-> msg, detail |-> "", text |-> << >>,
     points |-> << >>]

SaysError(msg, chain) ==
    [kind |-> "returned", message |-> msg, detail |-> Head(chain), text |-> << >>,
     points |-> << >>]

SaysText(t) ==
    [kind |-> "returned", message |-> "", detail |-> "", text |-> t, points |-> << >>]

SaysPoints(points) ==
    [kind |-> "returned", message |-> "", detail |-> "", text |-> << >>,
     points |-> [i \in 1..Len(points) |-> << i, points[i] >>]]

Escapes(chain) ==
    [kind |-> "raised", message |-> "", detail |-> Head(chain), text |-> << >>,
     points |-> << >>]

\* except (...) as e: the types named are answered, the others pass
OnError(caught, msg, chain) ==
    IF Head(chain) \in caught THEN SaysError(msg, chain) ELSE Escapes(chain)

\* if not video_url: return ... before anything is called
NotInvoked(answer) ==
    [invoked |-> << >>, fetches |-> << >>, transcript |-> NoTranscript,
     reply |-> answer]

NoUrl(req) == ~req.has_url \/ req.video_url = << >>

\* Variant of WithTranscript: an empty transcript is handed on.
WithTranscriptUnchecked(got, caught, failed, rest) ==
    IF got.result.kind = "error"
    THEN [invoked |-> << "get_transcript" >>, fetches |-> got.fetches,
          transcript |-> got.result,
          reply |-> OnError(caught, failed, got.result.raised)]
    ELSE [invoked |-> << "get_transcript" >> \o rest.invoked, fetches |-> got.fetches,
          transcript |-> got.result, reply |-> rest.reply]

\* The transcript is asked for; a failure is answered or passes, an empty
\* transcript is answered, and only then the rest of the handler runs.
WithTranscript(got, caught, failed, rest) ==
    IF got.result.kind = "error"
    THEN [invoked |-> << "get_transcript" >>, fetches |-> got.fetches,
          transcript |-> got.result,
          reply |-> OnError(caught, failed, got.result.raised)]
    ELSE IF got.result.value = << >>
    THEN [invoked |-> << "get_transcript" >>, fetches |-> got.fetches,
          transcript |-> got.result, reply |-> Says(NoTranscriptAnswer)]
    ELSE [invoked |-> << "get_transcript" >> \o rest.invoked, fetches |-> got.fetches,
          transcript |-> got.result, reply |-> rest.reply]

\* YouTubeSummaryServer._handle_get_transcript
_handle_get_transcript(req, got) ==
    IF NoUrl(req) THEN NotInvoked(Says(UrlRequiredAnswer))
    ELSE WithTranscript(got, { "TranscriptFetcherError" }, TranscriptFailedAnswer,
                        [invoked |-> << >>, reply |-> SaysText(got.result.value)])

SummaryReply(s, caught, failed) ==
    IF s.kind = "error" THEN OnError(caught, failed, s.raised)
    ELSE IF s.value = << >> THEN Says(NoSummaryAnswer)
    ELSE SaysText(s.value)

\* YouTubeSummaryServer._handle_summarize_video
_handle_summarize_video(req, got, s) ==
    IF NoUrl(req) THEN NotInvoked(Says(UrlRequiredAnswer))
    ELSE WithTranscript(got, { "TranscriptFetcherError", "SummaryGeneratorError" },
                        SummarizeFailedAnswer,
                        [invoked |-> << "generate_summary_with_length" >>,
                         reply |-> SummaryReply(s, { "TranscriptFetcherError",
                                                     "SummaryGeneratorError" },
                                                SummarizeFailedAnswer)])

KeyPointsReply(kp) ==
    IF kp.kind = "error"
    THEN OnError({ "TranscriptFetcherError" }, FetchFailedAnswer, kp.raised)
    ELSE IF kp.value = << >> THEN Says(NoKeyPointsAnswer)
    ELSE SaysPoints(kp.value)

\* YouTubeSummaryServer._handle_extract_key_points
_handle_extract_key_points(req, got, kp) ==
    IF NoUrl(req) THEN NotInvoked(Says(UrlRequiredAnswer))
    ELSE WithTranscript(got, { "TranscriptFetcherError" }, FetchFailedAnswer,
                        [invoked |-> << "extract_key_points" >>,
                         reply |-> KeyPointsReply(kp)])

\* YouTubeSummaryServer._handle_get_video_metadata
_handle_get_video_metadata(req, md) ==
    IF NoUrl(req) THEN NotInvoked(Says(UrlRequiredAnswer))
    ELSE [invoked |-> << "metadata_extractor" >>, fetches |-> << >>,
          transcript |-> NoTranscript,
          reply |-> IF md.kind = "error"
                    THEN OnError({ "MetadataExtractorError" }, MetadataFailedAnswer,
                                 md.raised)
                    ELSE SaysText(md.value)]

\* Lines 54-68 of call_tool
Dispatch(req, got, s, kp, md) ==
    IF req.name = "get_transcript" THEN _handle_get_transcript(req, got)
    ELSE IF req.name = "summarize_video" THEN _handle_summarize_video(req, got, s)
    ELSE IF req.name = "extract_key_points" THEN _handle_extract_key_points(req, got, kp)
    ELSE IF req.name = "get_video_metadata" THEN _handle_get_video_metadata(req, md)
    ELSE NotInvoked([Says(UnknownToolAnswer) EXCEPT !.detail = req.name])

\* Variant of ReturnedAlways: without the last except clause.
LetEscape(out, msg) == out

\* except Exception as e: an answer naming the exception is returned
ReturnedAlways(out, msg) ==
    IF out.reply.kind = "raised"
    THEN [out EXCEPT !.reply = SaysError(msg, << out.reply.detail >>)]
    ELSE out

\* call_tool of the stdio server
call_tool(req, got, s, kp, md) ==
    ReturnedAlways(Dispatch(req, got, s, kp, md), ToolErrorAnswer)

\* The tool summarize_video of the SSE server: no test of video_url, and a
\* last except clause of its own.
sse_summarize_video(req, got, s) ==
    ReturnedAlways(
        WithTranscript(got, { "TranscriptFetcherError", "SummaryGeneratorError" },
                       SseSummarizeFailedAnswer,
                       [invoked |-> << "generate_summary_with_length" >>,
                        reply |-> SummaryReply(s, { "TranscriptFetcherError",
                                                    "SummaryGeneratorError" },
                                               SseSummarizeFailedAnswer)]),
        SseUnexpectedAnswer)

\* The handler with its components: the transcript the retriever gives,
\* then what the other components give for it.
CallToolWith(req, got, f, inj, available) ==
    call_tool(req, got,
              CallSummary(got.result.value, req.summary_length, f, inj),
              CallKeyPoints(got.result.value, ArgumentOrDefault(req.num_points), f, inj),
              CallMetadata(available, inj))

SseSummarizeWith(req, got, f, inj) ==
    sse_summarize_video(req, got,
                        CallSummary(got.result.value, req.summary_length, f, inj))

\* The exception types a component can be made to raise, and the ways of
\* making one raise.
Raisable ==
    { "TranscriptFetcherError", "SummaryGeneratorError", "MetadataExtractorError",
      "RuntimeError" }

Injections ==
    { NoInjection }
        \cup [component : { "transcript", "summary", "metadata" }, exception : Raisable]

\* The argument video_url: absent, empty, or one of these.
ServerUrls ==
    { << >>,
      << "https:", "//", "www", ".", "youtube", ".", "com", "/", "watch",
         "?", "v", "=", AnId >>,
      << "https:", "//", "www", ".", "youtube", ".", "com", "/", "embed", "/", AnId >>,
      << "https:", "//", "example", ".", "com", "/", "watch" >> }

UrlArguments ==
    { [has_url |-> FALSE, video_url |-> << >>] }
        \cup { [has_url |-> TRUE, video_url |-> u] : u \in ServerUrls }

ToolRequest(server, name, u, l, n) ==
    [server |-> server, name |-> name, has_url |-> u.has_url,
     video_url |-> u.video_url, summary_length |-> l, num_points |-> n]

ServerInit ==
    /\ text = << >>
    /\ op = "none"
    /\ ratio = DefaultRatio
    /\ length = "medium"
    /\ num_points = DefaultNumPoints
    /\ result = NoResult
    /\ trace = << >>
    /\ raised = << >>
    /\ fault \in { "none" } \cup TokenizerFaults
    /\ stop_words = EnglishStopWords
    /\ SessionIdle /\ ConfigIdle /\ ToolIdle /\ VideoIdle
    /\ language = "en"
    /\ api \in Worlds
    /\ fetches = << >>
    /\ transcript = NoTranscript
    /\ ServerIdle

Served(req, out) ==
    /\ request' = req
    /\ invoked' = out.invoked
    /\ fetches' = out.fetches
    /\ transcript' = out.transcript
    /\ reply' = out.reply

\* One tool call on the stdio server
CallTool ==
    /\ request.server = "none"
    /\ \E name \in ToolNames \cup { "other" }, u \in UrlArguments, inj \in Injections :
         \E l \in (IF name = "summarize_video" THEN Lengths ELSE { "medium" }),
            n \in (IF name = "extract_key_points" THEN ToolNumPoints ELSE { << >> }),
            available \in (IF name = "get_video_metadata" THEN BOOLEAN ELSE { TRUE }) :
              Served(ToolRequest("stdio", name, u, l, n),
                     CallToolWith(ToolRequest("stdio", name, u, l, n),
                                  CallTranscript(u.video_url, language, api, inj),
                                  fault, inj, available))
    /\ stop_words' = StopWordsAfterCall(stop_words, transcript'.value)
    /\ UNCHANGED <<coreVars, fault, raised, log, calls, language, api>>
    /\ UNCHANGED <<configVars, toolVars, videoVars>>

\* One call of the tool summarize_video on the SSE server; video_url is a
\* required parameter.
SseSummarizeVideo ==
    /\ request.server = "none"
    /\ \E u \in ServerUrls, l \in Lengths, inj \in Injections :
         Served(ToolRequest("sse", "summarize_video",
                            [has_url |-> TRUE, video_url |-> u], l, << >>),
                SseSummarizeWith(ToolRequest("sse", "summarize_video",
                                             [has_url |-> TRUE, video_url |-> u],
                                             l, << >>),
                                 CallTranscript(u, language, api, inj),
                                 fault, inj))
    /\ stop_words' = StopWordsAfterCall(stop_words, transcript'.value)
    /\ UNCHANGED <<coreVars, fault, raised, log, calls, language, api>>
    /\ UNCHANGED <<configVars, toolVars, videoVars>>

ServerNext == CallTool \/ SseSummarizeVideo

ServerSpec == ServerInit /\ [][ServerNext]_vars

----------------------------------------------------------------------------
(* Vocabulary of the properties *)

\* The sentences of the document as generate_summary sees them.
DocSentences == sent_tokenize(_preprocess_text(text))

\* The score of a sentence of the preprocessed document.
DocScore(s) ==
    SumWeights(word_tokenize(Lower(s)),
               _calculate_word_frequencies(_preprocess_text(text)))

\* The distinct sentence texts of the document with a positive score.
DocScored ==
    { DocSentences[i] : i \in { k \in 1..Len(DocSentences) :
                                  RatLess(RatZero, DocScore(DocSentences[k])) } }

\* The same for extract_key_points, which reads the text as given.
RawSentences == sent_tokenize(text)

RawScore(s) == SumWeights(word_tokenize(Lower(s)), _calculate_word_frequencies(text))

RawScored ==
    { RawSentences[i] : i \in { k \in 1..Len(RawSentences) :
                                  RatLess(RatZero, RawScore(RawSentences[k])) } }

\* Equality of two fractions
RatEq(p, q) == p[1] * q[2] = q[1] * p[2]

IsSubstring(s, t) ==
    \E i \in 0..(Len(t) - Len(s)) : SubSeq(t, i + 1, i + Len(s)) = s

Min(a, b) == IF a < b THEN a ELSE b

\* max(1, floor(n * r / 100))
TargetCount(n, r) == IF (n * r) \div 100 >= 1 THEN (n * r) \div 100 ELSE 1

SummaryReturned == op = "generate_summary" /\ result.kind = "ok"

\* No token of the document counts: each is a stopword or not alphabetic.
NoScorableContent ==
    \A w \in { word_tokenize(Lower(_preprocess_text(text)))[i] :
                 i \in 1..Len(word_tokenize(Lower(_preprocess_text(text)))) } :
        ~IsAlpha(w) \/ w \in stop_words

\* The sentences of the returned summary, as a set.
SummarySet == { result.sentences[i] : i \in 1..Len(result.sentences) }

\* Sentence u ranks above sentence v: a higher score, or the same score and
\* an earlier place in the document.
DocRanksAbove(u, v) ==
    \/ RatLess(DocScore(v), DocScore(u))
    \/ /\ RatEq(DocScore(u), DocScore(v))
       /\ Index(DocSentences, u) < Index(DocSentences, v)

\* A tokenizer raised during the call.
FaultOccurred == \E i \in 1..Len(trace) : trace[i] = FaultEvent

KeyPointsReturned == op = "extract_key_points" /\ result.kind = "ok"

----------------------------------------------------------------------------
(* C1: for non-empty text and a ratio in (0, 1], the sentences of the summary
   are sentences of the document and their original indices increase
   strictly from the first output sentence to the last. *)
C1_SummaryInDocumentOrder ==
    (SummaryReturned /\ ratio > 0) =>
        /\ \A i \in 1..Len(result.sentences) :
             \E k \in 1..Len(DocSentences) : DocSentences[k] = result.sentences[i]
        /\ \A i, j \in 1..Len(result.sentences) :
             i < j => Index(DocSentences, result.sentences[i])
                        < Index(DocSentences, result.sentences[j])

\* A summary of two sentences of which the later one has the higher score:
\* the ranking alone would have put them the other way round.
C1_Witness ==
    /\ SummaryReturned /\ ratio > 0
    /\ Len(result.sentences) >= 2
    /\ RatLess(DocScore(result.sentences[1]), DocScore(result.sentences[2]))

(* C2: for non-empty text and a ratio in (0, 1], the summary is at most as
   long as the text, and strictly shorter when the summary holds fewer
   sentences than the document. *)
C2_SummaryNotLonger ==
    (SummaryReturned /\ ratio > 0) =>
        /\ Len(result.value) <= Len(text)
        /\ Len(result.sentences) < Len(DocSentences) => Len(result.value) < Len(text)

C2_Witness ==
    /\ SummaryReturned /\ ratio > 0
    /\ Len(result.sentences) >= 2
    /\ Len(result.sentences) < Len(DocSentences)
    /\ Len(result.value) < Len(text)

(* C3: for text that is not empty or whitespace-only and a ratio that passes
   validation, generate_summary returns a non-empty summary holding at least
   one sentence of the document, however small the ratio. *)
C3_AtLeastOneSentence ==
    (op = "generate_summary" /\ Strip(text) # <<>> /\ 0 <= ratio /\ ratio <= 100) =>
        /\ result.kind = "ok"
        /\ result.value # <<>>
        /\ Len(result.sentences) >= 1
        /\ \A i \in 1..Len(result.sentences) :
             \E k \in 1..Len(DocSentences) : DocSentences[k] = result.sentences[i]

\* Ratio 0.0 on a document of several scored sentences: floor(n * r) is 0.
C3_Witness ==
    /\ SummaryReturned /\ ratio = 0
    /\ Len(DocSentences) >= 2 /\ DocScored # {}
    /\ Len(result.sentences) = 1

(* C4, as stated: whenever at least one sentence is scored, the summary has
   exactly max(1, floor(n * r)) sentences. *)
C4_ExactlyTargetCount ==
    (SummaryReturned /\ DocScored # {}) =>
        Len(result.sentences) = TargetCount(Len(DocSentences), ratio)

(* C4, amended: whenever at least one sentence is scored, the summary has
   exactly min(max(1, floor(n * r)), s) sentences, s the number of distinct
   sentence texts with a positive score. *)
C4_TargetOrAllScored ==
    (SummaryReturned /\ DocScored # {}) =>
        Len(result.sentences)
            = Min(TargetCount(Len(DocSentences), ratio), Cardinality(DocScored))

\* Fewer scored sentences than the target count.
C4_Witness ==
    /\ SummaryReturned /\ DocScored # {}
    /\ Cardinality(DocScored) < TargetCount(Len(DocSentences), ratio)
    /\ Len(result.sentences) = Cardinality(DocScored)

(* C5: generate_summary fails with the empty-input error whenever the text
   is empty or whitespace-only, whatever the ratio, and summarize is not
   invoked. *)
C5_EmptyInputFirst ==
    (op = "generate_summary" /\ Strip(text) = <<>>) =>
        /\ result.kind = "error"
        /\ result.error = EmptyInputError
        /\ \A i \in 1..Len(trace) : trace[i] # "summarize"

\* Whitespace-only text with a ratio that is itself invalid.
C5_Witness ==
    /\ op = "generate_summary" /\ text # <<>> /\ Strip(text) = <<>>
    /\ ratio > 100
    /\ result.error = EmptyInputError

(* C6: for non-empty text, generate_summary fails with the invalid-ratio
   error exactly when the ratio is below 0.0 or above 1.0; 0.0 and 1.0 are
   accepted and give a summary. *)
C6_InvalidRatioExactly ==
    (op = "generate_summary" /\ Strip(text) # <<>>) =>
        /\ (result.kind = "error" /\ result.error = InvalidRatioError)
             <=> (ratio < 0 \/ ratio > 100)
        /\ ratio \in {0, 100} => (result.kind = "ok" /\ result.value # <<>>)
        /\ result.kind = "error" => result.error = InvalidRatioError

C6_Witness ==
    /\ SummaryReturned /\ ratio = 100
    /\ Len(result.sentences) >= 2

(* C7: generate_summary_with_length fails with the invalid-length error for
   every length other than short, medium and long, whatever the text, and
   no later step runs; for the three valid lengths it never fails with that
   error. *)
C7_InvalidLengthFirst ==
    op = "generate_summary_with_length" =>
        /\ length \notin { "short", "medium", "long" } =>
             /\ result.kind = "error" /\ result.error = InvalidLengthError
             /\ trace = << "check_length" >>
        /\ length \in { "short", "medium", "long" } =>
             ~(result.kind = "error" /\ result.error = InvalidLengthError)

\* An invalid length together with an empty text.
C7_Witness ==
    /\ op = "generate_summary_with_length" /\ length = "invalid"
    /\ Strip(text) = <<>>
    /\ result.error = InvalidLengthError

(* C8: the ratio used for a preset by generate_summary_with_length is the
   one ConfigManager.get_summary_length_ratio gives for it (short 0.2,
   medium 0.35, long 0.5). *)
C8_OneCanonicalTable ==
    (op = "generate_summary_with_length" /\ result.kind = "ok") =>
        ratio = get_summary_length_ratio(length, ConfigSummaryRatio)

(* C9: for every text and every integer n, extract_key_points returns at
   most n items (none when n is not positive), each one a sentence of the
   text and a verbatim substring of it. *)
C9_AtMostN ==
    KeyPointsReturned =>
        /\ Len(result.sentences) <= (IF num_points > 0 THEN num_points ELSE 0)
        /\ \A i \in 1..Len(result.sentences) :
             /\ \E k \in 1..Len(RawSentences) : RawSentences[k] = result.sentences[i]
             /\ IsSubstring(result.sentences[i], text)

(* C10: when at least one sentence is scored and n >= 1, extract_key_points
   returns the min(n, s) highest-ranked scored sentences in rank order:
   scores do not increase along the list, equal scores come in ascending
   original index, every scored sentence left out ranks below every one
   returned, and the list is not put back into document order. *)
C10_KeyPointsInRankOrder ==
    (KeyPointsReturned /\ num_points >= 1 /\ RawScored # {}) =>
        /\ Len(result.sentences) = Min(num_points, Cardinality(RawScored))
        /\ \A i \in 1..Len(result.sentences) : result.sentences[i] \in RawScored
        /\ \A i, j \in 1..Len(result.sentences) :
             i < j =>
               \/ RatLess(RawScore(result.sentences[j]), RawScore(result.sentences[i]))
               \/ /\ RatEq(RawScore(result.sentences[j]), RawScore(result.sentences[i]))
                  /\ Index(RawSentences, result.sentences[i])
                       < Index(RawSentences, result.sentences[j])
        /\ \A u \in RawScored :
             (\A i \in 1..Len(result.sentences) : result.sentences[i] # u) =>
               \A i \in 1..Len(result.sentences) :
                  \/ RatLess(RawScore(u), RawScore(result.sentences[i]))
                  \/ /\ RatEq(RawScore(u), RawScore(result.sentences[i]))
                     /\ Index(RawSentences, result.sentences[i])
                          < Index(RawSentences, u)

\* Key points that are not in document order, with a scored sentence left out.
C10_Witness ==
    /\ KeyPointsReturned /\ num_points >= 1
    /\ Len(result.sentences) >= 2
    /\ Len(result.sentences) < Cardinality(RawScored)
    /\ Index(RawSentences, result.sentences[2]) < Index(RawSentences, result.sentences[1])

(* C12: for non-empty text without scorable content (every token a stopword
   or not alphabetic) and every valid ratio, generate_summary does not fail
   and returns the first sentence of the document and nothing else. *)
C12_FirstSentenceFallback ==
    (/\ op = "generate_summary" /\ Strip(text) # <<>>
     /\ 0 <= ratio /\ ratio <= 100
     /\ NoScorableContent) =>
        /\ result.kind = "ok"
        /\ result.sentences = << DocSentences[1] >>
        /\ result.value = DocSentences[1]

\* A document of several sentences, none scored, at ratio 1.0.
C12_Witness ==
    /\ SummaryReturned /\ ratio = 100
    /\ NoScorableContent
    /\ Len(DocSentences) >= 2
    /\ result.value = DocSentences[1]

(* C13: a tokenizer fault inside generate_summary leaves the call as a
   SummaryGeneratorError whose cause is the tokenizer's exception, wrapped
   once; whatever leaves generate_summary is a SummaryGeneratorError. *)
C13_FaultsWrappedOnce ==
    op = "generate_summary" =>
        /\ FaultOccurred =>
             /\ result.kind = "error"
             /\ raised = << "SummaryGeneratorError", TokenizerError >>
        /\ raised # <<>> => Head(raised) = "SummaryGeneratorError"
        /\ result.kind = "error" <=> raised # <<>>

\* word_tokenize fails while the frequencies are counted.
C13_Witness ==
    /\ op = "generate_summary" /\ fault = "word_tokenize"
    /\ FaultOccurred
    /\ raised = << "SummaryGeneratorError", TokenizerError >>

(* C14: whenever a tokenizer raises during a public operation, the
   operation ends by raising, never with a normal return value. *)
C14_EveryFaultRaised ==
    FaultOccurred => (result.kind = "error" /\ raised # <<>>)

(* C19, as stated: when at least one sentence is scored, the sentences of
   the summary are exactly the max(1, floor(n * r)) highest-ranked scored
   sentences, ranked by descending score and, at equal score, by ascending
   original index. *)
C19_ExactlyTargetTopRanked ==
    (SummaryReturned /\ DocScored # {}) =>
        /\ SummarySet \subseteq DocScored
        /\ Cardinality(SummarySet) = TargetCount(Len(DocSentences), ratio)
        /\ \A u \in DocScored \ SummarySet :
             \A v \in SummarySet : DocRanksAbove(v, u)

(* C19, amended: when at least one sentence is scored, the sentences of the
   summary are exactly the min(max(1, floor(n * r)), s) highest-ranked
   scored sentences, s the number of distinct scored sentence texts, ranked
   by descending score and, at equal score, by ascending original index. *)
C19_TopRankedScored ==
    (SummaryReturned /\ DocScored # {}) =>
        /\ SummarySet \subseteq DocScored
        /\ Cardinality(SummarySet)
             = Min(TargetCount(Len(DocSentences), ratio), Cardinality(DocScored))
        /\ \A u \in DocScored \ SummarySet :
             \A v \in SummarySet : DocRanksAbove(v, u)

\* Two sentences of equal score, the earlier one kept and the later left out.
C19_Witness ==
    /\ SummaryReturned
    /\ \E u \in DocScored \ SummarySet :
         \E v \in SummarySet :
            /\ RatEq(DocScore(u), DocScore(v))
            /\ Index(DocSentences, v) < Index(DocSentences, u)

(* C20: when no sentence of the text is scored, extract_key_points(text, n)
   returns the first n sentences of the text in document order, all of them
   when the text has fewer than n (none when n is not positive). *)
C20_FirstNSentences ==
    (KeyPointsReturned /\ RawScored = {}) =>
        result.sentences
            = SubSeq(RawSentences, 1,
                     Min(IF num_points > 0 THEN num_points ELSE 0, Len(RawSentences)))

(* C11: on one SummaryGenerator, two calls of the same operation with
   identical arguments end alike, whatever calls were made before or
   between them: the same return value, or the same error. *)
C11_SameCallSameOutcome ==
    \A i, j \in 1..Len(log) :
        (/\ log[i].op = log[j].op
         /\ log[i].text = log[j].text
         /\ log[i].arg = log[j].arg) =>
            (log[i].result = log[j].result /\ log[i].raised = log[j].raised)

\* The same summary asked for twice, key points of another text in between.
C11_Witness ==
    /\ Len(log) = 3
    /\ log[1].op = "generate_summary" /\ log[1].result.kind = "ok"
    /\ Len(log[1].result.sentences) = 1
    /\ log[2].op = "extract_key_points" /\ log[2].text # log[1].text
    /\ log[2].result.sentences # <<>>
    /\ log[3].op = log[1].op /\ log[3].text = log[1].text
    /\ log[3].arg = log[1].arg
    /\ log[3].result = log[1].result

(* C16: while calls of generate_summary are in progress at the same time on
   one shared generator, the stopword set stays as constructed, and every
   call that has ended returned what the same call returns alone. *)
C16_NoInterference ==
    /\ stop_words = EnglishStopWords
    /\ \A c \in DOMAIN calls :
         calls[c].pc = "done" =>
            calls[c].result = generate_summary(calls[c].text, calls[c].ratio).result

\* Two calls on different texts that overlapped, both ended with a summary.
C16_Witness ==
    /\ DOMAIN calls = Callers
    /\ \A c \in Callers :
         /\ calls[c].pc = "done" /\ calls[c].overlapped
         /\ calls[c].result.kind = "ok" /\ calls[c].result.value # <<>>
    /\ calls["c1"].text # calls["c2"].text

(* C17: every get_config returns the instance of the latest set_config
   before it, or, when there was none, the instance the first get_config
   returned; two get_config calls in a row return the same instance; and
   get_config constructs an instance only when it finds none held, which
   is the first call of all. *)
C17_HeldInstanceReturned ==
    \A i \in 1..Len(config_log) :
        config_log[i].call = "get_config" =>
            LET sets == { j \in 1..(i - 1) : config_log[j].call = "set_config" }
                gets == { j \in 1..(i - 1) : config_log[j].call = "get_config" }
            IN /\ sets # {} => config_log[i].value = config_log[SetMax(sets)].value
               /\ (sets = {} /\ gets # {}) =>
                    config_log[i].value = config_log[1].value
               /\ (i > 1 /\ config_log[i - 1].call = "get_config") =>
                    config_log[i].value = config_log[i - 1].value
               /\ config_log[i].constructed > 0 => config_log[i].held = None
               /\ config_log[i].constructed = (IF i = 1 THEN 1 ELSE 0)
               /\ config_log[i].value = _config \/ i < Len(config_log)

\* get, set with a new instance, get, get: the last two return the instance
\* that was set, not the one the first call made.
C17_Witness ==
    /\ Len(config_log) = 4
    /\ config_log[1].call = "get_config" /\ config_log[1].constructed = 1
    /\ config_log[2].call = "set_config"
    /\ config_log[2].value # config_log[1].value
    /\ config_log[3].call = "get_config" /\ config_log[4].call = "get_config"
    /\ config_log[3].value = config_log[2].value
    /\ config_log[4].value = config_log[3].value

(* C15: whenever a tool handler calls extract_key_points, the num_points it
   hands over is positive: 5 when the invocation gave none or gave one that
   is not positive. *)
C15_PositiveNumPoints ==
    (arguments.tool # "none" /\ op = "extract_key_points") =>
        /\ num_points > 0
        /\ (arguments.num_points = << >> \/ arguments.num_points[1] <= 0) =>
             num_points = DefaultToolNumPoints

\* The four documented forms of the argument, for the ID AnId.
WatchForm ==
    << "https:", "//", "www", ".", "youtube", ".", "com", "/", "watch",
       "?", "v", "=", AnId >>

ShortForm == << "https:", "//", "youtu", ".", "be", "/", AnId >>

EmbedForm ==
    << "https:", "//", "www", ".", "youtube", ".", "com", "/", "embed", "/", AnId >>

BareForm == << AnId >>

(* C18: extract_video_id returns the ID for each of the four documented
   forms, the bare ID unchanged, and raises TranscriptFetcherError for
   every other argument (here: every argument that is not the bare ID and
   names no YouTube host). *)
C18_FourFormsElseError ==
    video_id.kind # "none" =>
        /\ video_url \in { WatchForm, ShortForm, EmbedForm, BareForm } =>
             video_id = Found(<< AnId >>)
        /\ (/\ video_url # BareForm
            /\ \A i \in 1..Len(video_url) : video_url[i] \notin { "youtube", "youtu" }) =>
             /\ video_id.kind = "error"
             /\ Head(video_id.raised) = "TranscriptFetcherError"

----------------------------------------------------------------------------
(* The tables of the two operations *)

\* The tokens and the tables summarize builds for the document.
DocTokens == word_tokenize(Lower(_preprocess_text(text)))

DocTable == _calculate_word_frequencies(_preprocess_text(text))

DocScoreTable == _score_sentences(DocSentences, DocTable)

\* The same for extract_key_points, which reads the text as given.
RawTokens == word_tokenize(Lower(text))

RawTable == _calculate_word_frequencies(text)

RawScoreTable == _score_sentences(RawSentences, RawTable)

\* The call reached TFIDFSummarizer.summarize.
SummarizeReached == \E i \in 1..Len(trace) : trace[i] = "summarize"

RatOne == <<1, 1>>

\* The tokens that survive the filter of the frequency table.
Surviving(tokens) ==
    { w \in { tokens[i] : i \in 1..Len(tokens) } : IsAlpha(w) /\ w \notin stop_words }

\* The highest number of occurrences of a surviving token.
TopCount(tokens) == SetMax({ Count(tokens, w) : w \in Surviving(tokens) })

\* table is the frequency table the claim describes for tokens.
FrequencyTableAsDescribed(tokens, table) ==
    /\ \A w \in DOMAIN table : IsAlpha(w) /\ w \notin stop_words
    /\ DOMAIN table = Surviving(tokens)
    /\ \A w \in DOMAIN table :
         /\ RatEq(table[w], << Count(tokens, w), TopCount(tokens) >>)
         /\ RatLess(RatZero, table[w])
         /\ ~RatLess(RatOne, table[w])
         /\ Count(tokens, w) = TopCount(tokens) => RatEq(table[w], RatOne)
    /\ (DOMAIN table = {}) <=> (Surviving(tokens) = {})

\* Sum over the words W of the table of occurrences times weight.
RECURSIVE WeightOfOccurrences(_, _, _)
WeightOfOccurrences(tokens, table, W) ==
    IF W = {} THEN RatZero
    ELSE LET w == CHOOSE x \in W : TRUE
         IN RatAdd(<< Count(tokens, w) * table[w][1], table[w][2] >>,
                   WeightOfOccurrences(tokens, table, W \ {w}))

\* The sum the claim describes for one sentence.
DescribedScore(sentence, table) ==
    WeightOfOccurrences(word_tokenize(Lower(sentence)), table, DOMAIN table)

\* scores is the score table the claim describes for sentences and table.
ScoreTableAsDescribed(sentences, table, scores) ==
    /\ \A i \in 1..Len(scores) :
         /\ \E k \in 1..Len(sentences) : sentences[k] = scores[i][1]
         /\ RatEq(scores[i][2], DescribedScore(scores[i][1], table))
         /\ RatLess(RatZero, scores[i][2])
    /\ \A k \in 1..Len(sentences) :
         DictHas(scores, sentences[k])
             <=> RatLess(RatZero, DescribedScore(sentences[k], table))

(* C21: the frequency table built during a call holds exactly the tokens
   that are alphabetic and no stopword, each with its count divided by the
   highest count: a weight in (0, 1], exactly 1 for every token of the
   highest count; the table is empty exactly when no token survives. *)
C21_FrequencyTable ==
    /\ SummarizeReached => FrequencyTableAsDescribed(DocTokens, DocTable)
    /\ op = "extract_key_points" => FrequencyTableAsDescribed(RawTokens, RawTable)

\* A summary of a document with a stopword and with words of different counts.
C21_Witness ==
    /\ SummaryReturned /\ SummarizeReached
    /\ \E i \in 1..Len(DocTokens) : DocTokens[i] \in stop_words
    /\ \E w \in DOMAIN DocTable : RatLess(DocTable[w], RatOne)
    /\ \E w \in DOMAIN DocTable : RatEq(DocTable[w], RatOne)

(* C22: the score table built during a call maps a sentence to the sum of
   the weights of its tokens, once per occurrence, tokens outside the
   frequency table counting 0; a sentence has an entry exactly when that sum
   is positive, so every score of the table is positive. *)
C22_ScoreTable ==
    /\ (SummarizeReached /\ DOMAIN DocTable # {}) =>
         ScoreTableAsDescribed(DocSentences, DocTable, DocScoreTable)
    /\ (op = "extract_key_points" /\ RawSentences # <<>>) =>
         ScoreTableAsDescribed(RawSentences, RawTable, RawScoreTable)

\* A sentence that repeats a word, and a sentence without an entry.
C22_Witness ==
    /\ SummaryReturned /\ SummarizeReached
    /\ \E i \in 1..Len(DocScoreTable) :
         \E w \in DOMAIN DocTable :
            Count(word_tokenize(Lower(DocScoreTable[i][1])), w) >= 2
    /\ \E k \in 1..Len(DocSentences) : ~DictHas(DocScoreTable, DocSentences[k])

\* The steps of generate_summary within the call that was made.
FacadeTrace == IF op = "generate_summary_with_length" THEN Tail(trace) ELSE trace

FacadeCalled ==
    \/ op = "generate_summary"
    \/ op = "generate_summary_with_length" /\ Len(trace) > 1

(* C23: every call of generate_summary starts with the validation and ends
   in one of two ways, a returned string or a raised error; a validation
   failure raises without summarize being invoked; summarize is invoked at
   most once, and only after the text check and the ratio check passed. *)
C23_FacadeStateMachine ==
    FacadeCalled =>
        /\ FacadeTrace # <<>> /\ FacadeTrace[1] = "check_text"
        /\ result.kind \in { "ok", "error" }
        /\ (result.kind = "ok") <=> (raised = <<>>)
        /\ (Strip(text) = <<>> \/ ratio < 0 \/ ratio > 100) =>
             /\ result.kind = "error"
             /\ \A i \in 1..Len(FacadeTrace) : FacadeTrace[i] # "summarize"
        /\ Cardinality({ i \in 1..Len(FacadeTrace) : FacadeTrace[i] = "summarize" }) <= 1
        /\ \A i \in 1..Len(FacadeTrace) :
             FacadeTrace[i] = "summarize" =>
                /\ \E j \in 1..(i - 1) : FacadeTrace[j] = "check_text"
                /\ \E j \in 1..(i - 1) : FacadeTrace[j] = "check_ratio"
                /\ Strip(text) # <<>> /\ 0 <= ratio /\ ratio <= 100

\* A call that went through both checks and returned a summary.
C23_Witness ==
    /\ op = "generate_summary" /\ result.kind = "ok"
    /\ trace = << "check_text", "check_ratio", "summarize" >>
    /\ Len(result.sentences) >= 2

(* C24: extract_key_points fails with the empty-input error when its text is
   empty or whitespace-only. *)
C24_KeyPointsEmptyInput ==
    (op = "extract_key_points" /\ Strip(text) = <<>>) =>
        /\ result.kind = "error"
        /\ result.error = EmptyInputError

(* C25: the outcome of an operation is the outcome of the same operation on
   the whitespace-normalized text, and normalizing twice is normalizing
   once. *)
C25_LayoutIndependent ==
    /\ _preprocess_text(_preprocess_text(text)) = _preprocess_text(text)
    /\ op = "generate_summary" =>
         result = generate_summary(_preprocess_text(text), ratio).result
    /\ op = "extract_key_points" =>
         result.sentences = extract_key_points(_preprocess_text(text), num_points)

\* No text appears twice in the list.
NoRepeatedText(list) == \A i, j \in 1..Len(list) : i # j => list[i] # list[j]

\* The list stands in the order of the first occurrences in the document.
ByFirstOccurrence(list) ==
    \A i, j \in 1..Len(list) :
        i < j => Index(DocSentences, list[i]) < Index(DocSentences, list[j])

(* C26, as stated: no sentence text appears twice in a summary or in a list
   of key points; a repeated sentence stands at the place of its first
   occurrence; the number of sentences that can be selected is the number of
   distinct scored sentence texts. *)
C26_NoTextTwice ==
    /\ SummaryReturned =>
         /\ NoRepeatedText(result.sentences)
         /\ ByFirstOccurrence(result.sentences)
         /\ DocScored # {} => Len(result.sentences) <= Cardinality(DocScored)
    /\ KeyPointsReturned =>
         /\ NoRepeatedText(result.sentences)
         /\ RawScored # {} => Len(result.sentences) <= Cardinality(RawScored)

(* C26, amended: the same, the list of key points being free of repeated
   texts when at least one sentence is scored. *)
C26_NoScoredTextTwice ==
    /\ SummaryReturned =>
         /\ NoRepeatedText(result.sentences)
         /\ ByFirstOccurrence(result.sentences)
         /\ DocScored # {} => Len(result.sentences) <= Cardinality(DocScored)
    /\ (KeyPointsReturned /\ RawScored # {}) =>
         /\ NoRepeatedText(result.sentences)
         /\ Len(result.sentences) <= Cardinality(RawScored)

\* A scored sentence that the document repeats after another scored
\* sentence, both in the summary: it stands once, before the other.
C26_Witness ==
    /\ SummaryReturned /\ ratio = 100
    /\ Len(DocSentences) > Cardinality(DocScored)
    /\ Len(result.sentences) = 2
    /\ \E k \in 1..Len(DocSentences) :
         /\ DocSentences[k] = result.sentences[1]
         /\ Index(DocSentences, result.sentences[2]) < k

\* The sentences of a list, as a set.
Elements(list) == { list[i] : i \in 1..Len(list) }

(* C27: for whitespace-normalized text with a scored sentence and
   k = max(1, floor(n * r)), the sentences of generate_summary(text, r) are
   those of extract_key_points(text, k), in document order and joined by
   single spaces; the summary is contained in the summary of every larger
   ratio. *)
C27_SummaryIsKeyPoints ==
    (SummaryReturned /\ _preprocess_text(text) = text /\ DocScored # {}) =>
        /\ SummarySet
             = Elements(extract_key_points(text, TargetCount(Len(DocSentences), ratio)))
        /\ Len(result.sentences)
             = Len(extract_key_points(text, TargetCount(Len(DocSentences), ratio)))
        /\ ByFirstOccurrence(result.sentences)
        /\ result.value = JoinSpace(result.sentences)
        /\ \A r \in Ratios :
             (ratio <= r /\ r <= 100) =>
                SummarySet \subseteq Elements(summarize(text, r).sentences)

\* Two of three scored sentences selected, the key points in another order
\* than the summary.
C27_Witness ==
    /\ SummaryReturned /\ _preprocess_text(text) = text
    /\ Len(result.sentences) = 2 /\ Cardinality(DocScored) = 3
    /\ extract_key_points(text, 2) = << result.sentences[2], result.sentences[1] >>

\* The data of the first fetch that succeeded.
FirstFetched == IF api.first.kind = "ok" THEN api.first.data ELSE api.second.data

(* C28: get_transcript makes at most two fetches, the first with the
   requested language and the second, only after the first failed, without
   a language; it returns the formatted transcript of the first fetch that
   succeeded; it raises TranscriptFetcherError, and nothing else, when both
   fetches fail or the formatting fails. *)
C28_TwoFetchesInOrder ==
    transcript.kind # "none" =>
        /\ Len(fetches) <= 2
        /\ Len(fetches) >= 1 => fetches[1].languages = << language >>
        /\ Len(fetches) = 2 =>
             /\ fetches[2].languages = << >>
             /\ api.first.kind = "error"
        /\ (video_id.kind = "ok" /\ api.first.kind = "ok") => Len(fetches) = 1
        /\ \A i \in 1..Len(fetches) : fetches[i].video_id = video_id.value
        /\ transcript.kind = "ok" => transcript.value = format_transcript(FirstFetched)
        /\ transcript.kind = "error" => Head(transcript.raised) = "TranscriptFetcherError"
        /\ video_id.kind = "ok" =>
             ((transcript.kind = "error")
                <=> (\/ api.first.kind = "error" /\ api.second.kind = "error"
                     \/ ~api.formats))

\* A language other than the default: the first fetch failed, the second
\* delivered the transcript that is returned.
C28_Witness ==
    /\ transcript.kind = "ok" /\ transcript.value # << >>
    /\ Len(fetches) = 2
    /\ language = "ko"
    /\ api.first.kind = "error" /\ api.second.kind = "ok"

\* The handler called component c.
Invoked(c) == \E i \in 1..Len(invoked) : invoked[i] = c

\* The handler called the summary generator.
GeneratorInvoked == Invoked("generate_summary_with_length") \/ Invoked("extract_key_points")

(* C29: call_tool of the stdio server gives back a text for every tool name
   and every arguments map, whatever a component raises; for a name other
   than the four tools the text is "Unknown tool: <name>" and no component
   is invoked. *)
C29_CallToolTotal ==
    request.server = "stdio" =>
        /\ reply.kind = "returned"
        /\ request.name \notin ToolNames =>
             /\ reply.message = UnknownToolAnswer /\ reply.detail = request.name
             /\ invoked = << >> /\ fetches = << >>
        /\ request.name \in ToolNames => reply.message # UnknownToolAnswer

\* extract_key_points fetched the transcript, the summary generator raised
\* SummaryGeneratorError, and call_tool answered with the error.
C29_Witness ==
    /\ request.server = "stdio" /\ request.name = "extract_key_points"
    /\ invoked = << "get_transcript", "extract_key_points" >>
    /\ reply.kind = "returned"
    /\ reply.message = ToolErrorAnswer /\ reply.detail = "SummaryGeneratorError"

\* The answers that tell of an error or of a missing transcript.
ErrorAnswers ==
    { UrlRequiredAnswer, NoTranscriptAnswer, SummarizeFailedAnswer, FetchFailedAnswer,
      ToolErrorAnswer, SseSummarizeFailedAnswer, SseUnexpectedAnswer }

(* C30: in the handlers of summarize_video and extract_key_points a fetch is
   made only for a video_url that is present and not empty, the summary
   generator is invoked only after get_transcript returned a transcript
   that is not empty, and when video_url is missing, the fetch fails or the
   transcript is empty the answer is an error or "No transcript available"
   and the summary generator is not invoked. *)
C30_FetchThenSummarize ==
    request.name \in { "summarize_video", "extract_key_points" } =>
        /\ fetches # << >> => (request.has_url /\ request.video_url # << >>)
        /\ (request.server = "stdio" /\ Invoked("get_transcript")) =>
             (request.has_url /\ request.video_url # << >>)
        /\ GeneratorInvoked =>
             /\ Len(invoked) = 2 /\ invoked[1] = "get_transcript"
             /\ transcript.kind = "ok" /\ transcript.value # << >>
        /\ (\/ ~request.has_url \/ request.video_url = << >>
            \/ transcript.kind = "error"
            \/ transcript.kind = "ok" /\ transcript.value = << >>) =>
             /\ ~GeneratorInvoked
             /\ reply.kind = "returned" /\ reply.message \in ErrorAnswers

\* The fetch delivered an empty transcript: the handler answers that there
\* is none and the summary generator is not invoked.
C30_Witness ==
    /\ request.name = "summarize_video" /\ request.server = "sse"
    /\ fetches # << >>
    /\ transcript.kind = "ok" /\ transcript.value = << >>
    /\ invoked = << "get_transcript" >>
    /\ reply.message = NoTranscriptAnswer

====
